---- MODULE Spec2Model ----
(***************************************************************************)
(* RainMachine uploader for weewx (bin/user/rainmachine.py).               *)
(*                                                                         *)
(* The service RainMachine(StdRESTful) builds a queue and a                *)
(* RainMachineThread(RESTThread) and binds new_archive_record to the       *)
(* host's NEW_ARCHIVE_RECORD event.  The thread overrides format_url,      *)
(* get_record and get_post_body; the loop that drives them (run_loop,      *)
(* skip_this_post, process_record, post_with_retries) is inherited from    *)
(* the host library weewx.restx and is modelled here as the host library   *)
(* runs it.                                                                *)
(*                                                                         *)
(* Python values: an optional value is a sequence, <<>> for None (or for   *)
(* an option that is not set) and <<v>> for the value v.  A dict is a      *)
(* function from its keys.                                                 *)
(***************************************************************************)
EXTENDS Integers, Sequences, FiniteSets, TLC

VARIABLES
    config,     \* the [StdRESTful][[RainMachine]] section and the wx_binding
    svcpc,      \* position of RainMachine.__init__
    attrs,      \* attributes the service object has
    bound,      \* new_archive_record is subscribed to NEW_ARCHIVE_RECORD
    thread,     \* <<>> or <<fields of the RainMachineThread>>
    queue,      \* archive_queue: items in flight to the worker
    wpc,        \* position of the worker thread
    cur,        \* the item the worker holds (_record)
    count,      \* _count of post_with_retries
    lastpost,   \* RESTThread.lastpost
    full,       \* _full_record of process_record
    qry,        \* history: <<>> or <<the day query made for _full_record>>
    payload,    \* <<>> or <<body>> returned by get_post_body
    lastTry,    \* time of the last post_request of the record in hand
    now,        \* time.time()
    ticks,      \* number of clock steps taken by the environment
    nextId,     \* sequence number of the next archive record
    signalled,  \* the owner has put the shutdown signal
    posts,      \* history: every HTTP POST attempt, in order
    outcome,    \* history: how each record's processing ended
    deq,        \* history: how often each record was dequeued
    done,       \* history: steps of process_record completed per record
    log         \* history: per-record log lines

vars == <<config, svcpc, attrs, bound, thread, queue, wpc, cur, count,
          lastpost, full, qry, payload, lastTry, now, ticks, nextId, signalled, posts,
          outcome, deq, done, log>>

----------------------------------------------------------------------------
(* Bounds of the exploration *)

MaxRecords == 2      \* archive records the host produces in one run
MaxTicks == 1        \* clock steps of the environment in one run

(* Program constants *)

DefaultPostInterval == 3600
DefaultMaxBacklog == 0
DefaultMaxTries == 3
DefaultRetryWait == 5
DefaultTimeout == 60
US == 1
METRIC == 16
DaySeconds == 86400

(* Environment constants: one clock step, the time the run starts at *)
TickStep == 60 * 60
StartTime == 10 * DaySeconds

None == <<>>
Unset == <<>>
Some(v) == <<v>>
Opt(o, d) == IF o = Unset THEN d ELSE o[1]

Ids == 1..(MaxRecords + 1)

----------------------------------------------------------------------------
(* Numbers of the wire payload.  A value is <<w, h, l>> and stands for     *)
(* w + (h * 10^5 + l) * 10^-10 with 0 <= h, l < 10^5, so that the scale    *)
(* 0.2777777777 is exact and no product leaves the 32 bit integers.        *)

Limb == 10 ^ 5
Num(w, h, l) == <<w, h, l>>
Mul(v, s) ==
    LET l == v * s[3]
        h == v * s[2] + (l \div Limb)
    IN  <<v * s[1] + (h \div Limb), h % Limb, l % Limb>>
Add(a, b) ==
    LET l == a[3] + b[3]
        h == a[2] + b[2] + (l \div Limb)
    IN  <<a[1] + b[1] + (h \div Limb), h % Limb, l % Limb>>

(* RainMachineThread._DATA_MAP: destination |-> (source, scale, offset) *)
_DATA_MAP ==
    [d \in {"timestamp", "wind", "temperature", "maxrh", "dewpoint",
            "pressure", "rain", "mintemp", "maxtemp", "et"} |->
      CASE d = "timestamp"   -> [src |-> "dateTime",    scale |-> Num(1, 0, 0),  offset |-> Num(0, 0, 0)]
        [] d = "wind"        -> [src |-> "windSpeed",   scale |-> Num(0, 27777, 77777), offset |-> Num(0, 0, 0)]
        [] d = "temperature" -> [src |-> "outTemp",     scale |-> Num(1, 0, 0),  offset |-> Num(0, 0, 0)]
        [] d = "maxrh"       -> [src |-> "outHumidity", scale |-> Num(1, 0, 0),  offset |-> Num(0, 0, 0)]
        [] d = "dewpoint"    -> [src |-> "dewpoint",    scale |-> Num(1, 0, 0),  offset |-> Num(0, 0, 0)]
        [] d = "pressure"    -> [src |-> "barometer",   scale |-> Num(0, 10000, 0), offset |-> Num(0, 0, 0)]
        [] d = "rain"        -> [src |-> "dayRain",     scale |-> Num(10, 0, 0), offset |-> Num(0, 0, 0)]
        [] d = "mintemp"     -> [src |-> "outTempMin",  scale |-> Num(1, 0, 0),  offset |-> Num(0, 0, 0)]
        [] d = "maxtemp"     -> [src |-> "outTempMax",  scale |-> Num(1, 0, 0),  offset |-> Num(0, 0, 0)]
        [] d = "et"          -> [src |-> "ET",          scale |-> Num(10, 0, 0), offset |-> Num(0, 0, 0)]]

(* "if record.get(rkey)": a zero counts as no value *)
HasValue_truthy(record, rkey) ==
    rkey \in DOMAIN record /\ record[rkey] # None /\ record[rkey] # Some(0)

(* get_post_body: the keys of entry are the destinations whose source is a *)
(* key of the record with a value that is not None.                        *)
HasValue(record, rkey) == rkey \in DOMAIN record /\ record[rkey] # None

(* get_post_body over the observation fields only *)
get_post_body_no_time(record) ==
    LET entry ==
          [_key \in {d \in DOMAIN _DATA_MAP \ {"timestamp"} :
                        HasValue(record, _DATA_MAP[d].src)} |->
             Add(Mul(record[_DATA_MAP[_key].src][1], _DATA_MAP[_key].scale),
                 _DATA_MAP[_key].offset)]
    IN  [data |-> [weather |-> <<entry>>], ctype |-> "application/json"]

(* get_post_body with the scale and the offset of a field exchanged *)
get_post_body_swapped(record) ==
    LET entry ==
          [_key \in {d \in DOMAIN _DATA_MAP : HasValue(record, _DATA_MAP[d].src)} |->
             Add(Mul(record[_DATA_MAP[_key].src][1], _DATA_MAP[_key].offset),
                 _DATA_MAP[_key].scale)]
    IN  [data |-> [weather |-> <<entry>>], ctype |-> "application/json"]

get_post_body(record) ==
    LET entry ==
          [_key \in {d \in DOMAIN _DATA_MAP : HasValue(record, _DATA_MAP[d].src)} |->
             Add(Mul(record[_DATA_MAP[_key].src][1], _DATA_MAP[_key].scale),
                 _DATA_MAP[_key].offset)]
    IN  [data |-> [weather |-> <<entry>>], ctype |-> "application/json"]

(* format_url with the two ports exchanged *)
format_url_swapped_ports(self) ==
    LET proto == IF self.usessl THEN "https" ELSE "http"
        port  == IF self.usessl THEN "8081" ELSE "8080"
    IN  <<proto, "://", self.ip, ":", port,
          "/api/4/parser/data?access_token=", self.token>>

(* format_url: the URL as the sequence of its parts *)
format_url(self) ==
    LET proto == IF self.usessl THEN "https" ELSE "http"
        port  == IF self.usessl THEN "8080" ELSE "8081"
    IN  <<proto, "://", self.ip, ":", port,
          "/api/4/parser/data?access_token=", self.token>>

----------------------------------------------------------------------------
(* The observation store.  dbm is None or <<db>>, db.rows the archive rows *)
(* [dateTime, outTemp] and db.mode what the next query does: "ok" answers, *)
(* "norow" returns no row, "raise" raises (database locked, no table).     *)

SetMin(S) == CHOOSE x \in S : \A y \in S : x <= y
SetMax(S) == CHOOSE x \in S : \A y \in S : x >= y

startOfDayUTC(ts) == ts - (ts % DaySeconds)

(* the query with "dateTime>=?" for its lower limit *)
getSql_closed(db, lo, hi) ==
    LET vals == {r.outTemp[1] : r \in {x \in db.rows :
                     x.dateTime >= lo /\ x.dateTime <= hi /\ x.outTemp # None}}
    IN  IF db.mode = "norow" THEN None
        ELSE IF vals = {} THEN Some(<<None, None>>)
        ELSE Some(<<Some(SetMin(vals)), Some(SetMax(vals))>>)

(* SELECT MIN(outTemp), MAX(outTemp) ... WHERE dateTime>? AND dateTime<=? *)
getSql(db, lo, hi) ==
    LET vals == {r.outTemp[1] : r \in {x \in db.rows :
                     x.dateTime > lo /\ x.dateTime <= hi /\ x.outTemp # None}}
    IN  IF db.mode = "norow" THEN None
        ELSE IF vals = {} THEN Some(<<None, None>>)
        ELSE Some(<<Some(SetMin(vals)), Some(SetMax(vals))>>)

getSqlRaises(dbm) == dbm # None /\ dbm[1].mode = "raise"

_get_day_min_max_temp(dbm, ts) ==
    IF dbm = None THEN <<None, None>>
    ELSE LET sod == startOfDayUTC(ts)
             val == getSql(dbm[1], sod, ts)
         IN  IF val = None THEN <<None, None>> ELSE val[1]

(* weewx.units.convert for group_temperature, degree_F to degree_C *)
FtoC(v) == ((v - 32) * 5) \div 9

(* from_unit and v are optional values *)
_convert_temperature(v, from_unit) ==
    IF from_unit = None \/ v = None THEN None
    ELSE IF from_unit[1] # METRIC THEN Some(FtoC(v[1]))
    ELSE v

(* weewx.units.to_METRIC on the observation types the model's records     *)
(* carry in US units: temperatures are converted, None stays None.        *)
TemperatureKeys == {"outTemp", "dewpoint"}
to_METRIC(rec) ==
    IF rec["usUnits"] = Some(METRIC) THEN rec
    ELSE [k \in DOMAIN rec |->
            IF k = "usUnits" THEN Some(METRIC)
            ELSE IF k \in TemperatureKeys /\ rec[k] # None THEN Some(FtoC(rec[k][1]))
            ELSE rec[k]]

(* RESTThread.get_record: without a database the record itself, with one  *)
(* a copy augmented by the rain totals; the model's rows carry no rain,   *)
(* so the totals it adds are None.                                        *)
RainTotals == {"hourRain", "rain24", "dayRain"}
RESTThread_get_record(record, dbm) ==
    IF dbm = None THEN record
    ELSE [k \in DOMAIN record \cup RainTotals |->
            IF k \in DOMAIN record THEN record[k] ELSE None]

(* RainMachineThread.get_record, when the day query does not raise *)
get_record(record, dbm) ==
    LET rec0   == RESTThread_get_record(record, dbm)
        rec    == to_METRIC(rec0)
        minmax == _get_day_min_max_temp(dbm, rec["dateTime"][1])
    IN  [k \in DOMAIN rec \cup {"outTempMin", "outTempMax"} |->
            IF k = "outTempMin" THEN _convert_temperature(minmax[1], record["usUnits"])
            ELSE IF k = "outTempMax" THEN _convert_temperature(minmax[2], record["usUnits"])
            ELSE rec[k]]

(* the exception of the day query leaves get_record: nothing catches it *)
get_record_raises(record, dbm) == getSqlRaises(dbm)

----------------------------------------------------------------------------
(* Configuration.  Every option of the section is Unset or Some(value);   *)
(* post_interval and stale take an optional value themselves.             *)

Minimal ==
    [token |-> Some("TOKEN"), ip |-> Some("10.0.0.2"), usessl |-> Some(FALSE),
     skip_upload |-> Unset, post_interval |-> Unset, max_backlog |-> Unset,
     stale |-> Unset, log_success |-> Unset, log_failure |-> Unset,
     timeout |-> Unset, max_tries |-> Unset, retry_wait |-> Unset,
     wx_binding |-> TRUE]

Often == [Minimal EXCEPT !.post_interval = Some(None), !.max_tries = Some(2)]

Configs ==
    { Minimal,
      [Minimal EXCEPT !.token = Unset],
      [Minimal EXCEPT !.ip = Unset],
      [Minimal EXCEPT !.usessl = Unset],
      [Minimal EXCEPT !.usessl = Some(TRUE), !.wx_binding = FALSE],
      [Minimal EXCEPT !.skip_upload = Some(TRUE)],
      Often,
      [Often EXCEPT !.skip_upload = Some(TRUE), !.wx_binding = FALSE],
      [Often EXCEPT !.max_tries = Some(1)],
      [Often EXCEPT !.log_failure = Some(FALSE), !.wx_binding = FALSE],
      [Often EXCEPT !.max_backlog = Some(1)],
      [Often EXCEPT !.stale = Some(Some(3600))] }

(* weewx.restx.get_site_dict(config_dict, service, *args): None when one   *)
(* of the required options is missing, else the options that are set      *)
get_site_dict(config_dict, required) ==
    IF \E option \in required : config_dict[option] = Unset THEN None
    ELSE Some(config_dict)

(* line 117, with a required option left out *)
site_dict_of_token_only(config_dict) == get_site_dict(config_dict, {"token"})

(* line 117: get_site_dict(config_dict, 'RainMachine', 'token', 'ip') *)
site_dict_of(config_dict) == get_site_dict(config_dict, {"token", "ip"})

(* RainMachine.__init__, lines 121-124: manager_dict is set unless the     *)
(* binding is unknown                                                     *)
manager_dict_of(config_dict) ==
    IF config_dict.wx_binding THEN Some("wx_binding") ELSE None

(* RainMachineThread.__init__ passing retry_wait for max_tries and back *)
RainMachineThread_init_swapped(site_dict, manager_dict) ==
    [token         |-> site_dict.token[1],
     ip            |-> site_dict.ip[1],
     manager_dict  |-> manager_dict,
     usessl        |-> Opt(site_dict.usessl, FALSE),
     skip_upload   |-> Opt(site_dict.skip_upload, FALSE),
     post_interval |-> Opt(site_dict.post_interval, Some(DefaultPostInterval)),
     max_backlog   |-> Opt(site_dict.max_backlog, DefaultMaxBacklog),
     stale         |-> Opt(site_dict.stale, None),
     log_success   |-> Opt(site_dict.log_success, TRUE),
     log_failure   |-> Opt(site_dict.log_failure, TRUE),
     timeout       |-> Opt(site_dict.timeout, DefaultTimeout),
     max_tries     |-> Opt(site_dict.retry_wait, DefaultRetryWait),
     retry_wait    |-> Opt(site_dict.max_tries, DefaultMaxTries)]

(* RainMachineThread.__init__ not passing max_backlog on: the base class   *)
(* default, sys.maxsize, applies                                           *)
RainMachineThread_init_no_backlog(site_dict, manager_dict) ==
    [token         |-> site_dict.token[1],
     ip            |-> site_dict.ip[1],
     manager_dict  |-> manager_dict,
     usessl        |-> Opt(site_dict.usessl, FALSE),
     skip_upload   |-> Opt(site_dict.skip_upload, FALSE),
     post_interval |-> Opt(site_dict.post_interval, Some(DefaultPostInterval)),
     max_backlog   |-> 2147483647,
     stale         |-> Opt(site_dict.stale, None),
     log_success   |-> Opt(site_dict.log_success, TRUE),
     log_failure   |-> Opt(site_dict.log_failure, TRUE),
     timeout       |-> Opt(site_dict.timeout, DefaultTimeout),
     max_tries     |-> Opt(site_dict.max_tries, DefaultMaxTries),
     retry_wait    |-> Opt(site_dict.retry_wait, DefaultRetryWait)]

(* RainMachineThread.__init__ with no post_interval *)
RainMachineThread_init_no_post_interval(site_dict, manager_dict) ==
    [token         |-> site_dict.token[1],
     ip            |-> site_dict.ip[1],
     manager_dict  |-> manager_dict,
     usessl        |-> Opt(site_dict.usessl, FALSE),
     skip_upload   |-> Opt(site_dict.skip_upload, FALSE),
     post_interval |-> None,
     max_backlog   |-> Opt(site_dict.max_backlog, DefaultMaxBacklog),
     stale         |-> Opt(site_dict.stale, None),
     log_success   |-> Opt(site_dict.log_success, TRUE),
     log_failure   |-> Opt(site_dict.log_failure, TRUE),
     timeout       |-> Opt(site_dict.timeout, DefaultTimeout),
     max_tries     |-> Opt(site_dict.max_tries, DefaultMaxTries),
     retry_wait    |-> Opt(site_dict.retry_wait, DefaultRetryWait)]

(* RainMachineThread.__init__ not passing stale on *)
RainMachineThread_init_no_stale(site_dict, manager_dict) ==
    [token         |-> site_dict.token[1],
     ip            |-> site_dict.ip[1],
     manager_dict  |-> manager_dict,
     usessl        |-> Opt(site_dict.usessl, FALSE),
     skip_upload   |-> Opt(site_dict.skip_upload, FALSE),
     post_interval |-> Opt(site_dict.post_interval, Some(DefaultPostInterval)),
     max_backlog   |-> Opt(site_dict.max_backlog, DefaultMaxBacklog),
     stale         |-> None,
     log_success   |-> Opt(site_dict.log_success, TRUE),
     log_failure   |-> Opt(site_dict.log_failure, TRUE),
     timeout       |-> Opt(site_dict.timeout, DefaultTimeout),
     max_tries     |-> Opt(site_dict.max_tries, DefaultMaxTries),
     retry_wait    |-> Opt(site_dict.retry_wait, DefaultRetryWait)]

(* RainMachineThread.__init__(q, **site_dict) with its defaults *)
RainMachineThread_init(site_dict, manager_dict) ==
    [token         |-> site_dict.token[1],
     ip            |-> site_dict.ip[1],
     manager_dict  |-> manager_dict,
     usessl        |-> Opt(site_dict.usessl, FALSE),
     skip_upload   |-> Opt(site_dict.skip_upload, FALSE),
     post_interval |-> Opt(site_dict.post_interval, Some(DefaultPostInterval)),
     max_backlog   |-> Opt(site_dict.max_backlog, DefaultMaxBacklog),
     stale         |-> Opt(site_dict.stale, None),
     log_success   |-> Opt(site_dict.log_success, TRUE),
     log_failure   |-> Opt(site_dict.log_failure, TRUE),
     timeout       |-> Opt(site_dict.timeout, DefaultTimeout),
     max_tries     |-> Opt(site_dict.max_tries, DefaultMaxTries),
     retry_wait    |-> Opt(site_dict.retry_wait, DefaultRetryWait)]

self == thread[1]

----------------------------------------------------------------------------
(* Archive records the host produces, and what the store holds *)

Rec(ts, units, obs) ==
    [k \in {"dateTime", "usUnits"} \cup DOMAIN obs |->
        IF k = "dateTime" THEN Some(ts)
        ELSE IF k = "usUnits" THEN Some(units)
        ELSE obs[k]]

Obs1 == [k \in {"outTemp"} |-> Some(68)]
Obs2 == [k \in {"outTemp", "barometer"} |-> None]

Records(ts) == { Rec(ts, US, Obs1), Rec(ts, METRIC, Obs2) }

Row(ts, v) == [dateTime |-> ts, outTemp |-> v]
Stores(ts) ==
    { [rows |-> {}, mode |-> "ok"],
      [rows |-> {Row(ts, Some(50)), Row(ts - 1800, Some(32)), Row(ts - 900, None)},
       mode |-> "ok"],
      [rows |-> {}, mode |-> "raise"] }

(* an item of the queue: the record and its sequence number; the None that *)
(* signals the thread to exit has the number 0                             *)
NoRecord == [k \in {"dateTime"} |-> None]
NoneItem == [id |-> 0, rec |-> NoRecord]
Item(n, r) == [id |-> n, rec |-> r]

----------------------------------------------------------------------------
(* Initial state: the host is about to construct the service *)

Init ==
    /\ config \in Configs
    /\ svcpc = "init"
    /\ attrs = {}
    /\ bound = FALSE
    /\ thread = None
    /\ queue = <<>>
    /\ wpc = "unstarted"
    /\ cur = NoneItem
    /\ count = 0
    /\ lastpost = 0
    /\ full = NoRecord
    /\ qry = None
    /\ payload = None
    /\ lastTry = 0
    /\ now = StartTime
    /\ ticks = 0
    /\ nextId = 1
    /\ signalled = FALSE
    /\ posts = <<>>
    /\ outcome = [i \in Ids |-> "none"]
    /\ deq = [i \in Ids |-> 0]
    /\ done = [i \in Ids |-> {}]
    /\ log = {}

svcVars == <<svcpc, attrs, bound, thread>>
workerVars == <<wpc, cur, count, lastpost, full, qry, payload, lastTry>>
histVars == <<posts, outcome, deq, done, log>>

----------------------------------------------------------------------------
(* RainMachine.__init__ *)

(* lines 117-119: without a site_dict the constructor returns *)
SvcGetSiteDict ==
    /\ svcpc = "init"
    /\ svcpc' = IF site_dict_of(config) = None THEN "disabled" ELSE "create"
    /\ UNCHANGED <<config, attrs, bound, thread, queue, workerVars, now, ticks,
                   nextId, signalled, histVars>>

(* lines 121-127: the queue and the thread object *)
SvcCreate ==
    /\ svcpc = "create"
    /\ attrs' = {"archive_queue", "archive_thread"}
    /\ queue' = <<>>
    /\ thread' = Some(RainMachineThread_init(site_dict_of(config)[1],
                                             manager_dict_of(config)))
    /\ svcpc' = "start"
    /\ UNCHANGED <<config, bound, workerVars, now, ticks, nextId, signalled,
                   histVars>>

(* line 128: archive_thread.start() *)
SvcStart ==
    /\ svcpc = "start"
    /\ wpc' = "get"
    /\ svcpc' = "bind"
    /\ UNCHANGED <<config, attrs, bound, thread, queue, cur, count, lastpost,
                   full, qry, payload, lastTry, now, ticks, nextId, signalled,
                   histVars>>

(* line 129: bind(NEW_ARCHIVE_RECORD, new_archive_record) *)
SvcBind ==
    /\ svcpc = "bind"
    /\ bound' = TRUE
    /\ svcpc' = "log"
    /\ UNCHANGED <<config, attrs, thread, queue, workerVars, now, ticks, nextId,
                   signalled, histVars>>

(* line 130: the log line reads site_dict['ip'] and site_dict['usessl'];   *)
(* a section without usessl raises KeyError out of the constructor        *)
SvcLog ==
    /\ svcpc = "log"
    /\ svcpc' = IF site_dict_of(config)[1].usessl = Unset THEN "raised" ELSE "ready"
    /\ UNCHANGED <<config, attrs, bound, thread, queue, workerVars, now, ticks,
                   nextId, signalled, histVars>>

----------------------------------------------------------------------------
(* The host *)

(* a queue of one slot: put waits while it is taken *)
PutEnabled_one_slot(q) == Len(q) < 1

(* queue.Queue() has no maxsize: put never waits and never raises Full *)
PutEnabled(q) == TRUE

(* a stack instead of a queue *)
Put_lifo(q, item) == <<item>> \o q

(* queue.Queue is first in, first out *)
Put(q, item) == Append(q, item)

(* new_archive_record(event), lines 132-133; the host dispatches events    *)
(* once its services are constructed, to the callbacks that are bound     *)
new_archive_record(record) ==
    /\ svcpc = "ready"
    /\ bound
    /\ nextId <= MaxRecords
    /\ PutEnabled(queue)
    /\ queue' = Put(queue, Item(nextId, record))
    /\ nextId' = nextId + 1
    /\ UNCHANGED <<config, svcVars, workerVars, now, ticks, signalled, histVars>>

NewArchiveRecord == \E record \in Records(now) : new_archive_record(record)

(* time passes *)
Tick ==
    /\ ticks < MaxTicks
    /\ ticks' = ticks + 1
    /\ now' = now + TickStep
    /\ UNCHANGED <<config, svcVars, queue, workerVars, nextId, signalled, histVars>>

(* a shutDown that puts nothing on the queue *)
ShutDown_no_signal ==
    /\ svcpc \in {"ready", "disabled"}
    /\ ~signalled
    /\ wpc \notin {"unstarted", "terminated"}
    /\ signalled' = TRUE
    /\ UNCHANGED <<config, svcVars, queue, workerVars, now, ticks, nextId, histVars>>

(* StdRESTful.shutDown: a None is put for a thread that is alive *)
is_alive == wpc \notin {"unstarted", "terminated"}
ShutDown ==
    /\ svcpc \in {"ready", "disabled"}
    /\ ~signalled
    /\ LET put == {"archive_queue", "archive_thread"} \subseteq attrs /\ is_alive
       IN  /\ signalled' = put
           /\ queue' = IF put THEN Put(queue, NoneItem) ELSE queue
    /\ UNCHANGED <<config, svcVars, workerVars, now, ticks, nextId, histVars>>

----------------------------------------------------------------------------
(* The worker: RESTThread.run_loop with the methods the plugin overrides *)

dbmOf(db) == IF self.manager_dict = None THEN None ELSE Some(db)

Finish(id, how) == outcome' = [outcome EXCEPT ![id] = how]

(* the locals of one pass of run_loop are gone when it gets the next record *)
Forget ==
    /\ cur' = NoneItem /\ count' = 0 /\ full' = NoRecord /\ payload' = None
    /\ lastTry' = 0 /\ qry' = None
Logged(kind, id, on) == log' = IF on THEN log \cup {<<kind, id>>} ELSE log

(* run_loop, inner loop: one _record = queue.get(); None ends the thread,  *)
(* a record with more than max_backlog records behind it is passed over    *)
WkGet ==
    /\ wpc = "get"
    /\ queue # <<>>
    /\ LET _record == Head(queue)
       IN  /\ queue' = Tail(queue)
           /\ IF _record = NoneItem
              THEN /\ wpc' = "terminated"
                   /\ UNCHANGED <<cur, outcome, deq>>
              ELSE /\ deq' = [deq EXCEPT ![_record.id] = @ + 1]
                   /\ IF Len(queue') <= self.max_backlog
                      THEN /\ wpc' = "skip_this_post"
                           /\ cur' = _record
                           /\ UNCHANGED outcome
                      ELSE /\ wpc' = "get"
                           /\ Finish(_record.id, "backlog")
                           /\ UNCHANGED cur
    /\ UNCHANGED <<config, svcVars, count, lastpost, full, qry, payload, lastTry, now,
                   ticks, nextId, signalled, posts, done, log>>

(* RESTThread.skip_this_post(time_ts) *)
skip_this_post(time_ts) ==
    IF self.stale # None /\ now - time_ts > self.stale[1] THEN "stale"
    ELSE IF self.post_interval # None /\ time_ts - lastpost < self.post_interval[1]
         THEN "interval"
    ELSE "post"

WkSkipThisPost ==
    /\ wpc = "skip_this_post"
    /\ LET time_ts == cur.rec["dateTime"][1]
           skip    == skip_this_post(time_ts)
       IN  IF skip = "post"
           THEN /\ lastpost' = time_ts
                /\ wpc' = "get_record"
                /\ UNCHANGED <<outcome, cur, count, full, qry, payload, lastTry>>
           ELSE /\ wpc' = "get"
                /\ Finish(cur.id, skip)
                /\ Forget
                /\ UNCHANGED lastpost
    /\ UNCHANGED <<config, svcVars, queue, now, ticks, nextId, signalled, posts,
                   deq, done, log>>

(* process_record: _full_record = self.get_record(record, dbmanager) *)
(* over the stores the database may be at the time of the query; qry      *)
(* keeps the query _get_day_min_max_temp made and what it returned         *)
GetRecordFrom(stores) ==
    /\ wpc = "get_record"
    /\ \E db \in stores :
         /\ ~get_record_raises(cur.rec, dbmOf(db))
         /\ full' = get_record(cur.rec, dbmOf(db))
         /\ qry' = IF dbmOf(db) = None THEN None
                   ELSE Some([ts   |-> cur.rec["dateTime"][1],
                              rows |-> db.rows,
                              mode |-> db.mode,
                              val  |-> _get_day_min_max_temp(dbmOf(db),
                                                             cur.rec["dateTime"][1])])
    /\ done' = [done EXCEPT ![cur.id] = @ \cup {"get_record"}]
    /\ wpc' = "get_post_body"
    /\ UNCHANGED <<config, svcVars, queue, cur, count, lastpost, payload, lastTry,
                   now, ticks, nextId, signalled, posts, outcome, deq, log>>

WkGetRecord == GetRecordFrom(Stores(cur.rec["dateTime"][1]))

(* an exception that is none of AbortedPost, BadLogin, FailedPost leaves   *)
(* process_record: run_loop logs "Thread terminating" and returns          *)
WkUnexpectedException ==
    /\ wpc = "get_record"
    /\ \E db \in Stores(cur.rec["dateTime"][1]) : get_record_raises(cur.rec, dbmOf(db))
    /\ wpc' = "terminated"
    /\ Finish(cur.id, "exception")
    /\ Logged("terminating", cur.id, TRUE)
    /\ done' = [done EXCEPT ![cur.id] = @ \cup {"query_raised"}]
    /\ Forget
    /\ UNCHANGED <<config, svcVars, queue, lastpost, now, ticks, nextId,
                   signalled, posts, deq>>

(* process_record: _payload = self.get_post_body(_full_record), then       *)
(* "if self.skip_upload: raise AbortedPost", which run_loop logs           *)
WkGetPostBody ==
    /\ wpc = "get_post_body"
    /\ done' = [done EXCEPT ![cur.id] = @ \cup {"get_post_body"}]
    /\ IF self.skip_upload
       THEN /\ wpc' = "get"
            /\ Finish(cur.id, "dryrun")
            /\ Logged("skipped", cur.id, self.log_success)
            /\ Forget
       ELSE /\ wpc' = "post"
            /\ payload' = Some(get_post_body(full))
            /\ count' = 0
            /\ UNCHANGED <<outcome, log, cur, full, qry, lastTry>>
    /\ UNCHANGED <<config, svcVars, queue, lastpost, now, ticks, nextId,
                   signalled, posts, deq>>

(* post_with_retries: one post_request; a 2xx code ends the loop, another  *)
(* code or an exception of the transport (URLError, socket.error, timeout) *)
(* counts the try                                                          *)
Responses == {"ok", "badcode", "error"}
RetryAfter(_count) == _count + 1 < self.max_tries

WkPost ==
    /\ wpc = "post"
    /\ \E res \in Responses :
         /\ posts' = Append(posts, [id |-> cur.id, try |-> count + 1,
                                    ok |-> (res = "ok"), url |-> format_url(self),
                                    data |-> payload[1].data,
                                    ctype |-> payload[1].ctype])
         /\ IF res = "ok"
            THEN /\ wpc' = "get"
                 /\ Finish(cur.id, "delivered")
                 /\ Logged("published", cur.id, self.log_success)
                 /\ Forget
            ELSE IF RetryAfter(count)
            THEN /\ wpc' = "sleep"
                 /\ count' = count + 1
                 /\ lastTry' = now
                 /\ UNCHANGED <<outcome, log, cur, full, qry, payload>>
            ELSE /\ wpc' = "get"
                 /\ Finish(cur.id, "failed")
                 /\ Logged("failed", cur.id, self.log_failure)
                 /\ Forget
    /\ UNCHANGED <<config, svcVars, queue, lastpost, now, ticks, nextId,
                   signalled, deq, done>>

(* post_with_retries: "if _count: time.sleep(self.retry_wait)" *)
SleepTime == self.retry_wait
WkSleep ==
    /\ wpc = "sleep"
    /\ now' = now + SleepTime
    /\ wpc' = "post"
    /\ UNCHANGED <<config, svcVars, queue, cur, count, lastpost, full, qry, payload,
                   lastTry, ticks, nextId, signalled, histVars>>

----------------------------------------------------------------------------
Next ==
    \/ SvcGetSiteDict \/ SvcCreate \/ SvcStart \/ SvcBind \/ SvcLog
    \/ NewArchiveRecord \/ Tick \/ ShutDown
    \/ WkGet \/ WkSkipThisPost \/ WkGetRecord \/ WkUnexpectedException
    \/ WkGetPostBody \/ WkPost \/ WkSleep

Spec == Init /\ [][Next]_vars

(* the worker is a thread of its own: a step it can take, it takes; a      *)
(* post_request returns within timeout and a sleep ends                    *)
Worker ==
    \/ WkGet \/ WkSkipThisPost \/ WkGetRecord \/ WkUnexpectedException
    \/ WkGetPostBody \/ WkPost \/ WkSleep

(* the configuration that posts every record, retries a failed POST and    *)
(* trims the backlog to nothing                                            *)
ShutConfigs == {Often}

InitShut == Init /\ config \in ShutConfigs

FairSpec == InitShut /\ [][Next]_vars /\ WF_vars(Worker)

----------------------------------------------------------------------------
(* The Record Transformer alone: get_post_body applied to every enriched   *)
(* record over the sources of _DATA_MAP.  An enriched record has dateTime, *)
(* usUnits, outTempMin and outTempMax (get_record sets them); each other   *)
(* source is absent, None, zero or positive.                               *)

ObsKeys == {"windSpeed", "outTemp", "outHumidity", "dewpoint", "barometer",
            "dayRain", "ET"}
Shape == {"absent", "None", "zero", "positive"}
ObsValue(c) == IF c = "None" THEN None ELSE IF c = "zero" THEN Some(0) ELSE Some(7)
Temps == {None, Some(0), Some(15)}

Enriched(shape, lo, hi) ==
    [k \in {"dateTime", "usUnits", "outTempMin", "outTempMax"}
            \cup {o \in ObsKeys : shape[o] # "absent"} |->
        IF k = "dateTime" THEN Some(StartTime)
        ELSE IF k = "usUnits" THEN Some(METRIC)
        ELSE IF k = "outTempMin" THEN lo
        ELSE IF k = "outTempMax" THEN hi
        ELSE ObsValue(shape[k])]

InitX ==
    /\ config = Minimal
    /\ svcpc = "ready"
    /\ attrs = {"archive_queue", "archive_thread"}
    /\ bound = TRUE
    /\ thread = Some(RainMachineThread_init(site_dict_of(Minimal)[1],
                                            manager_dict_of(Minimal)))
    /\ queue = <<>>
    /\ wpc = "get_post_body"
    /\ cur = Item(1, Rec(StartTime, METRIC, Obs2))
    /\ count = 0
    /\ lastpost = StartTime
    /\ \E shape \in [ObsKeys -> Shape], lo \in Temps, hi \in Temps :
          full = Enriched(shape, lo, hi)
    /\ qry = None
    /\ payload = None
    /\ lastTry = 0
    /\ now = StartTime
    /\ ticks = 0
    /\ nextId = 2
    /\ signalled = FALSE
    /\ posts = <<>>
    /\ outcome = [i \in Ids |-> "none"]
    /\ deq = [i \in Ids |-> IF i = 1 THEN 1 ELSE 0]
    /\ done = [i \in Ids |-> IF i = 1 THEN {"get_record"} ELSE {}]
    /\ log = {}

NextX == WkGetPostBody

SpecX == InitX /\ [][NextX]_vars

----------------------------------------------------------------------------
(* The day query on its own: get_record for a record of any time of two    *)
(* days, midnights included, over every store that has, at each of the     *)
(* times around the two midnights and the record, no row, a row without a  *)
(* temperature or a row with one.                                          *)

QueryTimes == {StartTime, StartTime + 1, StartTime + (TickStep \div 2),
               StartTime + DaySeconds - 1, StartTime + DaySeconds}
RowTimes == QueryTimes \cup {StartTime - 1, StartTime + DaySeconds + 1}
RowShape == {"absent", "None", "value"}

(* a temperature that tells the rows apart *)
TempAt(t) == (t - StartTime) % 97

RowsOf(shape) ==
    {Row(t, IF shape[t] = "None" THEN None ELSE Some(TempAt(t))) :
        t \in {x \in RowTimes : shape[x] # "absent"}}

QueryStores ==
    {[rows |-> RowsOf(shape), mode |-> "ok"] : shape \in [RowTimes -> RowShape]}
    \cup {[rows |-> {}, mode |-> "norow"]}

InitF ==
    /\ config = Minimal
    /\ svcpc = "ready"
    /\ attrs = {"archive_queue", "archive_thread"}
    /\ bound = TRUE
    /\ thread = Some(RainMachineThread_init(site_dict_of(Minimal)[1],
                                            manager_dict_of(Minimal)))
    /\ queue = <<>>
    /\ wpc = "get_record"
    /\ \E ts \in QueryTimes :
          /\ cur = Item(1, Rec(ts, METRIC, Obs2))
          /\ lastpost = ts
          /\ now = ts
    /\ count = 0
    /\ full = NoRecord
    /\ qry = None
    /\ payload = None
    /\ lastTry = 0
    /\ ticks = 0
    /\ nextId = 2
    /\ signalled = FALSE
    /\ posts = <<>>
    /\ outcome = [i \in Ids |-> "none"]
    /\ deq = [i \in Ids |-> IF i = 1 THEN 1 ELSE 0]
    /\ done = [i \in Ids |-> {}]
    /\ log = {}

WkGetRecordF == GetRecordFrom(QueryStores)

NextF == WkGetRecordF

SpecF == InitF /\ [][NextF]_vars

----------------------------------------------------------------------------
(* Properties *)

PostsOf(i) == SelectSeq(posts, LAMBDA p : p.id = i)
Finished(i) == deq[i] > 0 /\ cur.id # i

(* what the configuration asks for *)
cfgMaxTries == Opt(config.max_tries, DefaultMaxTries)
cfgRetryWait == Opt(config.retry_wait, DefaultRetryWait)
cfgLogFailure == Opt(config.log_failure, TRUE)
cfgStale == Opt(config.stale, None)
cfgSkipUpload == Opt(config.skip_upload, FALSE)

(* C1: the worker thread terminates only after the owner sent the shutdown *)
(* signal; no failure that concerns one record ends it.                    *)
C1_TerminatesOnlyOnSignal == wpc = "terminated" => signalled

(* C2: a record whose day min/max query failed is still enriched (with     *)
(* null outTempMin and outTempMax) and goes on to transform and delivery;  *)
(* its processing does not end with the failure.                           *)
C2_QueryFailureStillDelivers ==
    \A i \in Ids : "query_raised" \in done[i] =>
        /\ "get_record" \in done[i]
        /\ outcome[i] # "exception"

(* C3, as stated: a record whose every attempt fails gets exactly          *)
(* max_tries attempts and is then dropped with a failure logged.           *)
C3_FailureAlwaysLogged ==
    \A i \in Ids : outcome[i] = "failed" =>
        /\ Len(PostsOf(i)) = cfgMaxTries
        /\ <<"failed", i>> \in log

(* the attempts of each record, as the history of POSTs shows them *)
C3_Attempts ==
    \A i \in Ids :
        LET ps == PostsOf(i)
            n  == Len(ps)
        IN  /\ n <= cfgMaxTries
            /\ \A k \in 1..n : ps[k].try = k /\ (k < n => ~ps[k].ok)
            /\ (Finished(i) /\ n > 0 /\ ~ps[n].ok) => (n = cfgMaxTries /\ outcome[i] = "failed")
            /\ outcome[i] = "failed" => (n = cfgMaxTries /\ ~ps[n].ok)
            /\ (n > 0 /\ ps[n].ok) => outcome[i] = "delivered"
            /\ outcome[i] = "delivered" => (n > 0 /\ ps[n].ok)
            /\ outcome[i] = "failed" => (<<"failed", i>> \in log <=> cfgLogFailure)

(* C3, amended: no record gets more than max_tries attempts, numbered 1,   *)
(* 2, ... with only the last one possibly successful; a record whose       *)
(* attempts all failed got exactly max_tries and is dropped as failed, the *)
(* failure being logged exactly when log_failure is set; a record whose    *)
(* attempt k succeeded got exactly k; and every attempt after the first    *)
(* comes at least retry_wait after the attempt before it.                  *)
C3_RetryBound ==
    /\ []C3_Attempts
    /\ [][(posts' # posts /\ count > 0) => now - lastTry >= cfgRetryWait]_vars

C3_Witness ==
    \E i \in Ids : outcome[i] = "failed" /\ Len(PostsOf(i)) = cfgMaxTries
                   /\ cfgMaxTries > 1 /\ ~cfgLogFailure

(* C4: POSTs are made in enqueue order: no attempt for a record comes      *)
(* after an attempt for a record that was enqueued later.                  *)
C4_PostsInEnqueueOrder ==
    \A j, k \in DOMAIN posts : j < k => posts[j].id <= posts[k].id

C4_Witness ==
    \E j, k \in DOMAIN posts :
        /\ posts[j].id = 1 /\ posts[j].try = 2
        /\ posts[k].id = 2
        /\ deq[2] = 1

(* the host can hand over the next archive record *)
C5_EnqueueEnabled ==
    (svcpc = "ready" /\ nextId <= MaxRecords) => ENABLED NewArchiveRecord

(* C5: the producer never blocks: once the service is constructed, in      *)
(* every state of the worker the enqueue of a new archive record is        *)
(* enabled, and it appends the record without any step of the worker.      *)
C5_ProducerNeverBlocks ==
    /\ []C5_EnqueueEnabled
    /\ [][nextId' # nextId =>
            /\ Len(queue') = Len(queue) + 1
            /\ SubSeq(queue', 1, Len(queue)) = queue
            /\ queue'[Len(queue')].id = nextId
            /\ UNCHANGED workerVars]_vars

C5_Witness == wpc = "sleep" /\ queue # <<>> /\ queue[Len(queue)].id = nextId - 1

(* C6: with skip_upload no POST is ever made, and every record that passed *)
(* the backlog and skip checks and was then abandoned had been enriched    *)
(* and transformed.                                                        *)
C6_DryRun ==
    cfgSkipUpload =>
        /\ posts = <<>>
        /\ \A i \in Ids :
             (Finished(i) /\ outcome[i] \notin {"backlog", "stale", "interval"})
                => {"get_record", "get_post_body"} \subseteq done[i]

(* a record skipped as stale was neither enriched nor POSTed *)
C7_SkippedUnposted ==
    \A i \in Ids : outcome[i] = "stale" =>
        PostsOf(i) = <<>> /\ done[i] = {} /\ cfgStale # None

(* C7: with stale configured a record older than stale at the check is     *)
(* skipped, and is neither enriched nor POSTed; a record that is not older *)
(* than stale, and any record when stale is not configured, is not skipped *)
(* for staleness.                                                          *)
C7_Stale ==
    /\ []C7_SkippedUnposted
    /\ [][(wpc = "skip_this_post" /\ wpc' # wpc) =>
            LET age == now - cur.rec["dateTime"][1]
            IN  IF cfgStale # None /\ age > cfgStale[1]
                THEN outcome'[cur.id] = "stale" /\ wpc' = "get"
                ELSE outcome'[cur.id] # "stale"]_vars

C7_Witness == \E i \in Ids : outcome[i] = "stale"

(* C8: without ip or token the constructor returns without raising and     *)
(* there is never a queue, a thread, a subscription or a POST; with both   *)
(* the thread is started before the service subscribes.                    *)
C8_Unconfigured ==
    /\ (config.ip = Unset \/ config.token = Unset) =>
          /\ svcpc \in {"init", "disabled"}
          /\ attrs = {}
          /\ thread = None
          /\ wpc = "unstarted"
          /\ ~bound
          /\ queue = <<>>
          /\ posts = <<>>
    /\ bound => (config.ip # Unset /\ config.token # Unset /\ wpc # "unstarted")

C8_Witness == svcpc = "disabled" /\ config.ip = Unset /\ signalled = FALSE

(* C9: a destination field is a key of the payload's entry exactly when    *)
(* its source is a key of the enriched record with a value that is not     *)
(* null; a source that is zero gives the destination with a zero value.    *)
C9_KeysIffSourcePresent ==
    payload # None =>
        LET weather == payload[1].data.weather
            entry   == weather[1]
        IN  /\ Len(weather) = 1
            /\ \A d \in DOMAIN _DATA_MAP :
                 LET src == _DATA_MAP[d].src
                 IN  /\ d \in DOMAIN entry <=> (src \in DOMAIN full /\ full[src] # None)
                     /\ (src \in DOMAIN full /\ full[src] = Some(0))
                            => (d \in DOMAIN entry /\ entry[d] = Num(0, 0, 0))
            /\ DOMAIN entry \subseteq DOMAIN _DATA_MAP

C9_Witness ==
    /\ payload # None
    /\ "windSpeed" \notin DOMAIN full
    /\ {"barometer", "outTemp"} \subseteq DOMAIN full
    /\ full["barometer"] = None
    /\ full["outTemp"] = Some(0)
    /\ full["outTempMin"] = None
    /\ DOMAIN payload[1].data.weather[1] = {"timestamp", "temperature"}

(* C10: every record is dequeued at most once, is never back on the queue, *)
(* ends in exactly one of the outcomes backlog drop, skip, dry run,        *)
(* delivered, failed, and is not POSTed again after a successful POST.     *)
C10_OneAttemptChain ==
    \A i \in Ids :
        /\ deq[i] <= 1
        /\ deq[i] > 0 => \A k \in DOMAIN queue : queue[k].id # i
        /\ Finished(i) =>
             outcome[i] \in {"backlog", "stale", "interval", "dryrun", "delivered", "failed"}
        /\ \A k \in DOMAIN posts : (posts[k].id = i /\ posts[k].ok) => k = Len(posts) \/ posts[k + 1].id # i

cfgMaxBacklog == Opt(config.max_backlog, DefaultMaxBacklog)

(* a record dropped by the backlog trimming was neither enriched nor       *)
(* POSTed, and every record still queued or in hand was enqueued after it  *)
C11_DroppedAreOlder ==
    \A i \in Ids : outcome[i] = "backlog" =>
        /\ PostsOf(i) = <<>>
        /\ done[i] = {}
        /\ cur.id # 0 => cur.id > i
        /\ \A k \in DOMAIN queue : queue[k].id = 0 \/ queue[k].id > i

(* C11: a record dequeued while more than max_backlog items remain queued  *)
(* is dropped without delivery and the worker dequeues again; a record is  *)
(* kept only with at most max_backlog items behind it (with the default 0: *)
(* only with the queue empty right after the dequeue); every dropped       *)
(* record was enqueued before the record that is kept.                     *)
C11_BacklogDropsOldest ==
    /\ []C11_DroppedAreOlder
    /\ [][(wpc = "get" /\ queue # <<>> /\ queue' = Tail(queue) /\ Head(queue).id # 0) =>
            IF Len(queue') > cfgMaxBacklog
            THEN /\ outcome'[Head(queue).id] = "backlog"
                 /\ wpc' = "get"
                 /\ cur' = cur
                 /\ posts' = posts
            ELSE /\ wpc' = "skip_this_post"
                 /\ cur' = Head(queue)
                 /\ outcome'[Head(queue).id] = "none"]_vars

C11_Witness ==
    /\ cfgMaxBacklog = 0
    /\ outcome[1] = "backlog"
    /\ cur.id = 2
    /\ queue = <<>>

(* C12: once the shutdown signal is sent the worker eventually terminates, *)
(* from the blocking get, from a retry chain or from trimming a backlog;   *)
(* a terminated worker stays terminated and makes no POST, also for        *)
(* records enqueued afterwards.                                            *)
C12_CooperativeShutdown ==
    /\ signalled ~> (wpc = "terminated")
    /\ [][wpc = "terminated" => (wpc' = "terminated" /\ posts' = posts)]_vars

C12_Witness ==
    /\ signalled
    /\ wpc = "terminated"
    /\ posts # <<>>
    /\ queue # <<>>
    /\ outcome[1] = "failed"

cfgUseSSL == Opt(config.usessl, FALSE)

(* C13: every POST goes to {protocol}://{address}:{port}/api/4/parser/data *)
(* ?access_token={token} with the configured address and token, https and  *)
(* port 8080 when usessl is set, http and port 8081 when it is not; the    *)
(* URL is the same for every attempt of every record.                      *)
C13_Url ==
    /\ \A k \in DOMAIN posts :
         posts[k].url =
           <<IF cfgUseSSL THEN "https" ELSE "http", "://", config.ip[1], ":",
             IF cfgUseSSL THEN "8080" ELSE "8081",
             "/api/4/parser/data?access_token=", config.token[1]>>
    /\ \A j, k \in DOMAIN posts : posts[j].url = posts[k].url

C13_Witness ==
    /\ Len(posts) >= 2
    /\ posts[1].url[1] = "https"
    /\ posts[1].url[5] = "8080"
    /\ posts[1].id # posts[Len(posts)].id

(* the entry of the payload the worker holds *)
Entry == payload[1].data.weather[1]

(* the Field Mapping Table applied to the whole number v: the scales 1,    *)
(* 0.1 and 10 by shifting the decimal point, 0.2777777777 by the product   *)
Scaled(d, v) ==
    CASE d \in {"timestamp", "temperature", "maxrh", "dewpoint", "mintemp", "maxtemp"} ->
           Num(v, 0, 0)
      [] d = "pressure" -> Num(v \div 10, (v % 10) * (Limb \div 10), 0)
      [] d \in {"rain", "et"} -> Num(10 * v, 0, 0)
      [] d = "wind" -> Mul(v, Num(0, 27777, 77777))

(* C14: every destination field present in the wire payload has the value  *)
(* source_value * scale + offset with the scale and offset of the Field    *)
(* Mapping Table: temperature = outTemp * 1 + 0, pressure = barometer *    *)
(* 0.1, rain = dayRain * 10.                                               *)
C14_ScaleOffset ==
    payload # None =>
      \A d \in DOMAIN Entry :
        /\ Entry[d] = Add(Mul(full[_DATA_MAP[d].src][1], _DATA_MAP[d].scale),
                          _DATA_MAP[d].offset)
        /\ Entry[d] = Scaled(d, full[_DATA_MAP[d].src][1])

C14_Witness ==
    /\ payload # None
    /\ {"temperature", "pressure", "rain", "wind", "maxtemp"} \subseteq DOMAIN Entry
    /\ full["barometer"] = Some(7)
    /\ Entry["temperature"] = Num(7, 0, 0)
    /\ Entry["pressure"] = Num(0, 70000, 0)
    /\ Entry["rain"] = Num(70, 0, 0)
    /\ Entry["wind"] = Num(1, 94444, 44439)
    /\ Entry["maxtemp"] = Num(15, 0, 0)

(* the rows with a temperature that lie in (s, t], s the midnight UTC at   *)
(* or before t                                                             *)
Midnight(t) ==
    CHOOSE m \in {k * DaySeconds : k \in 0..(2 * (StartTime \div DaySeconds))} :
        m <= t /\ t - m < DaySeconds
InWindow(q) ==
    {r \in q.rows : Midnight(q.ts) < r.dateTime /\ r.dateTime <= q.ts /\ r.outTemp # None}

(* C15: for every timestamp t the fetcher aggregates exactly the stored    *)
(* rows with dateTime in (s, t], s the midnight UTC at or before t: the    *)
(* result is the least and the greatest temperature of these rows, a row   *)
(* at s is left out and a row at t is taken in, and with t a midnight the  *)
(* window is empty and the result is the no-value pair.                    *)
C15_Window ==
    qry # None =>
      LET q      == qry[1]
          inside == InWindow(q)
      IN  /\ inside = {} => q.val = <<None, None>>
          /\ inside # {} =>
               /\ q.val[1] # None /\ q.val[2] # None
               /\ \E r \in inside : r.outTemp[1] = q.val[1][1]
               /\ \E r \in inside : r.outTemp[1] = q.val[2][1]
               /\ \A r \in inside : /\ q.val[1][1] <= r.outTemp[1]
                                    /\ r.outTemp[1] <= q.val[2][1]
          /\ q.ts % DaySeconds = 0 => q.val = <<None, None>>

C15_Witness ==
    /\ qry # None
    /\ qry[1].ts = StartTime + (TickStep \div 2)
    /\ Row(StartTime, Some(TempAt(StartTime))) \in qry[1].rows
    /\ Row(StartTime + 1, Some(TempAt(StartTime + 1))) \in qry[1].rows
    /\ Row(qry[1].ts, Some(TempAt(qry[1].ts))) \in qry[1].rows
    /\ Row(StartTime + DaySeconds - 1, Some(TempAt(StartTime + DaySeconds - 1))) \in qry[1].rows
    /\ qry[1].val = <<Some(TempAt(StartTime + 1)), Some(TempAt(qry[1].ts))>>
    /\ full["outTempMin"] = Some(TempAt(StartTime + 1))

cfgPostInterval == Opt(config.post_interval, Some(DefaultPostInterval))

(* the dateTime a POST carries *)
PostTime(p) == p.data.weather[1]["timestamp"][1]

(* a record skipped for the interval was neither enriched nor POSTed, and  *)
(* the POSTs of two records are post_interval apart in dateTime            *)
C16_SentAtMostHourly ==
    /\ \A i \in Ids : outcome[i] = "interval" =>
          /\ cfgPostInterval # None
          /\ PostsOf(i) = <<>>
          /\ done[i] = {}
    /\ \A j, k \in DOMAIN posts :
          (j < k /\ posts[j].id # posts[k].id /\ cfgPostInterval # None) =>
              PostTime(posts[k]) - PostTime(posts[j]) >= cfgPostInterval[1]

(* C16: with post_interval configured (default 3600) a record that is not  *)
(* skipped has a dateTime at least post_interval after that of the last    *)
(* record not skipped before it; a dequeued record whose dateTime is less  *)
(* than post_interval after it is skipped and gets no POST attempt.        *)
C16_PostInterval ==
    /\ []C16_SentAtMostHourly
    /\ [][lastpost' # lastpost =>
            /\ wpc = "skip_this_post" /\ wpc' = "get_record"
            /\ lastpost' = cur.rec["dateTime"][1]
            /\ cfgPostInterval # None => lastpost' - lastpost >= cfgPostInterval[1]]_vars
    /\ [][(wpc = "skip_this_post" /\ wpc' # wpc) =>
            LET t == cur.rec["dateTime"][1]
            IN  /\ wpc' = "get_record" => lastpost' = t
                /\ (cfgPostInterval # None /\ t - lastpost < cfgPostInterval[1]) =>
                      /\ wpc' = "get"
                      /\ outcome'[cur.id] \in {"stale", "interval"}
                      /\ posts' = posts
                      /\ lastpost' = lastpost]_vars

C16_Witness ==
    /\ config.post_interval = Unset
    /\ outcome[1] = "delivered"
    /\ outcome[2] = "interval"
    /\ lastpost = StartTime

(* every payload POSTed has one entry, and the entry has a timestamp *)
C17_OneEntry ==
    \A k \in DOMAIN posts :
        /\ Len(posts[k].data.weather) = 1
        /\ "timestamp" \in DOMAIN posts[k].data.weather[1]
        /\ DOMAIN posts[k].data.weather[1] # {}

(* C17: every payload the worker POSTs has exactly one entry in its        *)
(* weather list, and the entry has the key timestamp with the value of the *)
(* dequeued record's dateTime; an entry with no keys is never POSTed, also *)
(* when every observation field of the record is null.                     *)
C17_OneEntryWithTimestamp ==
    /\ []C17_OneEntry
    /\ [][posts' # posts =>
            LET p == posts'[Len(posts')]
            IN  /\ posts' = Append(posts, p)
                /\ p.id = cur.id
                /\ Len(p.data.weather) = 1
                /\ "timestamp" \in DOMAIN p.data.weather[1]
                /\ p.data.weather[1]["timestamp"] = Num(cur.rec["dateTime"][1], 0, 0)]_vars

C17_Witness ==
    \E k \in DOMAIN posts :
        /\ DOMAIN posts[k].data.weather[1] = {"timestamp"}
        /\ posts[k].data.weather[1]["timestamp"] = Num(StartTime + TickStep, 0, 0)
        /\ posts[k].id = 2

====
